---- MODULE Spec2Model ----
(***************************************************************************)
(* Model of days-to-thing-tracker: the kiosk navigation state machine      *)
(* (src/python/views.py) driven through the public operations of           *)
(* ViewNavigator, the recurrence and urgency functions and the task store  *)
(* (src/python/database.py, models.py), the event handling of KioskApp     *)
(* (src/python/main.py), and the button callbacks and polling loop of the  *)
(* encoder handler (src/raspberry-pi-deployment/encoder.py).               *)
(***************************************************************************)
EXTENDS Integers, Sequences, FiniteSets, TLC

(***************************************************************************)
(* Bounds of the model                                                     *)
(***************************************************************************)
\* largest number of tasks a snapshot handed to set_tasks holds
MaxTasks == 3
\* largest number of completion records handed to set_history
MaxHistory == 2
\* longest run of same-direction rotations that is tracked
MaxRun == 4
\* number of animation steps that make up progress 1.0
ProgressSteps == 1
\* latest date (in days) handed to the recurrence engine
MaxDate == 4
\* largest recurrence value
MaxValue == 3
\* largest distance in days handed to the urgency classification
MaxDays == 9
\* number of tasks the store creates
MaxStoreTasks == 2
\* number of completion records the store inserts
MaxRecords == 2
\* last day the store's clock reaches
MaxClock == 6
\* time.time() when encoder.py starts, and how long it is followed, both in
\* tenths of a second
BootTime == 10
MaxTime == 8
\* detents the encoder is turned through, contact bounces within a detent
MaxDetents == 2
MaxBounce == 2

(***************************************************************************)
(* Constants of encoder.py, in tenths of a second                          *)
(***************************************************************************)
BUTTON_DEBOUNCE == 2

LONG_PRESS_TIME == 5

IDLE_TIMEOUT == 3000

(***************************************************************************)
(* Enumerations of views.py                                                *)
(***************************************************************************)
ViewState == {"TASK_LIST", "TASK_ACTIONS", "DELETE_CONFIRM", "COMPLETING",
              "TASK_HISTORY", "SETTINGS", "QR_CODE", "EMPTY"}

ActionItem == <<"DONE", "HISTORY", "DELETE", "BACK">>

SettingItem == <<"MANAGE_TASKS", "SCREEN_TIMEOUT", "BACK">>

\* return values of handle_press / handle_long_press ("none" is Python None)
Intents == {"none", "complete", "delete", "load_history", "show_qr",
            "toggle_timeout"}

(***************************************************************************)
(* Python helpers                                                          *)
(***************************************************************************)
Min(a, b) == IF a <= b THEN a ELSE b

Max(a, b) == IF a >= b THEN a ELSE b

\* seq[i] of a Python list raises IndexError unless -len <= i < len
IndexOk(seq, i) == -Len(seq) <= i /\ i < Len(seq)

\* seq[i] of a Python list: 0-based, negative indices count from the end
Index(seq, i) == IF i >= 0 THEN seq[i + 1] ELSE seq[Len(seq) + i + 1]

(***************************************************************************)
(* Inputs: a task snapshot is the list of the ids of the tasks the store   *)
(* holds, a history the list of the ids of a task's completion records;    *)
(* the navigator looks at their lengths only                               *)
(***************************************************************************)
TaskIds == 1..MaxTasks

Snapshots == {[i \in 1..n |-> i] : n \in 0..MaxTasks}

Histories == {[i \in 1..n |-> i] : n \in 0..MaxHistory}

(***************************************************************************)
(* ViewContext() as constructed by ViewNavigator.__init__                  *)
(***************************************************************************)
ViewContext ==
  [state |-> "TASK_LIST",
   tasks |-> <<>>,
   task_index |-> 0,
   action_index |-> 0,
   actions |-> ActionItem,
   delete_confirmed |-> FALSE,
   completing_progress |-> 0,
   history |-> <<>>,
   history_index |-> 0,
   setting_index |-> 0,
   screen_timeout_enabled |-> TRUE]

\* result of a handler: the context afterwards, the returned intent, and
\* whether the handler raised
Result(c, ret) == [ctx |-> c, ret |-> ret, raised |-> FALSE]

Raise(c) == [ctx |-> c, ret |-> "none", raised |-> TRUE]

(***************************************************************************)
(* ViewContext.current_task                                                *)
(***************************************************************************)
\* 0 stands for None: no task is selected
current_task(c) ==
  IF 0 <= c.task_index /\ c.task_index < Len(c.tasks)
  THEN c.tasks[c.task_index + 1]
  ELSE 0

(***************************************************************************)
(* ViewNavigator.set_tasks / set_history / complete_animation_done         *)
(***************************************************************************)
\* set_tasks that keeps the index it finds
set_tasks_unclamped(c, ts) ==
  LET c1 == [c EXCEPT !.tasks = ts]
  IN IF ts = <<>>
     THEN [c1 EXCEPT !.state = "EMPTY"]
     ELSE IF c1.state = "EMPTY"
          THEN [c1 EXCEPT !.state = "TASK_LIST"]
          ELSE c1

\* set_tasks that does not leave EMPTY when tasks arrive
set_tasks_stays_empty(c, ts) ==
  LET c1 == [c EXCEPT !.tasks = ts]
  IN IF ts = <<>>
     THEN [c1 EXCEPT !.state = "EMPTY"]
     ELSE IF c1.task_index >= Len(ts)
          THEN [c1 EXCEPT !.task_index = Len(ts) - 1]
          ELSE c1

set_tasks(c, ts) ==
  LET c1 == [c EXCEPT !.tasks = ts]
  IN IF ts = <<>>
     THEN [c1 EXCEPT !.state = "EMPTY"]
     ELSE LET c2 == IF c1.task_index >= Len(ts)
                    THEN [c1 EXCEPT !.task_index = Len(ts) - 1]
                    ELSE c1
          IN IF c2.state = "EMPTY"
             THEN [c2 EXCEPT !.state = "TASK_LIST"]
             ELSE c2

set_history(c, h) == [c EXCEPT !.history = h, !.history_index = 0]

\* complete_animation_done that leaves the view state as it is
complete_animation_done_keeps_state(c) == c

\* complete_animation_done that also goes back to the first task
complete_animation_done_first_task(c) ==
  [c EXCEPT !.state = "TASK_LIST", !.task_index = 0]

complete_animation_done(c) == [c EXCEPT !.state = "TASK_LIST"]

(***************************************************************************)
(* ViewNavigator.handle_clockwise, one operator per branch                 *)
(***************************************************************************)
\* clockwise rotation in the task list that stops at the last task
cw_task_list_clamped(c) ==
  IF c.tasks # <<>>
  THEN Result([c EXCEPT !.task_index =
                  Min(c.task_index + 1, Len(c.tasks) - 1)], "none")
  ELSE Result(c, "none")

cw_task_list(c) ==
  IF c.tasks # <<>>
  THEN Result([c EXCEPT !.task_index = (c.task_index + 1) % Len(c.tasks)], "none")
  ELSE Result(c, "none")

\* a clockwise rotation in the action menu that moves to the next task
cw_task_actions_moves_task(c) ==
  Result([c EXCEPT !.task_index = (c.task_index + 1) % Len(c.tasks)], "none")

cw_task_actions(c) ==
  IF Len(c.actions) = 0
  THEN Raise(c)
  ELSE Result([c EXCEPT !.action_index = (c.action_index + 1) % Len(c.actions)], "none")

\* a clockwise rotation in the dialog that selects Yes
cw_delete_confirm_selects_yes(c) ==
  Result([c EXCEPT !.delete_confirmed = TRUE], "none")

cw_delete_confirm(c) ==
  Result([c EXCEPT !.delete_confirmed = ~c.delete_confirmed], "none")

cw_task_history(c) ==
  IF c.history # <<>>
  THEN Result([c EXCEPT !.history_index =
                  Min(c.history_index + 1, Len(c.history) - 1)], "none")
  ELSE Result(c, "none")

\* clockwise rotation in the settings that runs past the last setting
cw_settings_unclamped(c) ==
  Result([c EXCEPT !.setting_index = c.setting_index + 1], "none")

cw_settings(c) ==
  LET max_idx == Len(SettingItem) - 1
  IN Result([c EXCEPT !.setting_index = Min(c.setting_index + 1, max_idx)], "none")

handle_clockwise(c) ==
  CASE c.state = "TASK_LIST" -> cw_task_list(c)
    [] c.state = "TASK_ACTIONS" -> cw_task_actions(c)
    [] c.state = "DELETE_CONFIRM" -> cw_delete_confirm(c)
    [] c.state = "TASK_HISTORY" -> cw_task_history(c)
    [] c.state = "SETTINGS" -> cw_settings(c)
    [] OTHER -> Result(c, "none")

(***************************************************************************)
(* ViewNavigator.handle_counter_clockwise                                  *)
(***************************************************************************)
ccw_task_list(c) ==
  IF c.tasks # <<>>
  THEN Result([c EXCEPT !.task_index = (c.task_index - 1) % Len(c.tasks)], "none")
  ELSE Result(c, "none")

ccw_task_actions(c) ==
  IF Len(c.actions) = 0
  THEN Raise(c)
  ELSE Result([c EXCEPT !.action_index = (c.action_index - 1) % Len(c.actions)], "none")

\* counter-clockwise rotation in the dialog that selects "no"
ccw_delete_confirm_selects_no(c) ==
  Result([c EXCEPT !.delete_confirmed = FALSE], "none")

ccw_delete_confirm(c) ==
  Result([c EXCEPT !.delete_confirmed = ~c.delete_confirmed], "none")

\* counter-clockwise rotation in the history that wraps to the last entry
ccw_task_history_wraps(c) ==
  IF c.history # <<>>
  THEN Result([c EXCEPT !.history_index =
                  (c.history_index - 1) % Len(c.history)], "none")
  ELSE Result(c, "none")

ccw_task_history(c) ==
  Result([c EXCEPT !.history_index = Max(c.history_index - 1, 0)], "none")

ccw_settings(c) ==
  Result([c EXCEPT !.setting_index = Max(c.setting_index - 1, 0)], "none")

handle_counter_clockwise(c) ==
  CASE c.state = "TASK_LIST" -> ccw_task_list(c)
    [] c.state = "TASK_ACTIONS" -> ccw_task_actions(c)
    [] c.state = "DELETE_CONFIRM" -> ccw_delete_confirm(c)
    [] c.state = "TASK_HISTORY" -> ccw_task_history(c)
    [] c.state = "SETTINGS" -> ccw_settings(c)
    [] OTHER -> Result(c, "none")

(***************************************************************************)
(* ViewNavigator.handle_press                                              *)
(***************************************************************************)
\* press in the task list that keeps the action index of the last visit
press_task_list_keeps_action(c) ==
  IF c.tasks # <<>>
  THEN Result([c EXCEPT !.state = "TASK_ACTIONS"], "none")
  ELSE Result(c, "none")

\* press in the task list that opens the action menu with no task
press_task_list_unguarded(c) ==
  Result([c EXCEPT !.action_index = 0, !.state = "TASK_ACTIONS"], "none")

press_task_list(c) ==
  IF c.tasks # <<>>
  THEN Result([c EXCEPT !.action_index = 0, !.state = "TASK_ACTIONS"], "none")
  ELSE Result(c, "none")

\* press in the action menu that does not reset the animation progress
press_task_actions_keeps_progress(c) ==
  IF ~IndexOk(c.actions, c.action_index)
  THEN Raise(c)
  ELSE LET action == Index(c.actions, c.action_index)
       IN CASE action = "DONE" ->
                 Result([c EXCEPT !.state = "COMPLETING"], "complete")
            [] action = "HISTORY" ->
                 Result([c EXCEPT !.history_index = 0,
                                  !.state = "TASK_HISTORY"], "load_history")
            [] action = "DELETE" ->
                 Result([c EXCEPT !.delete_confirmed = FALSE,
                                  !.state = "DELETE_CONFIRM"], "none")
            [] action = "BACK" ->
                 Result([c EXCEPT !.state = "TASK_LIST"], "none")
            [] OTHER -> Result(c, "none")

press_task_actions(c) ==
  IF ~IndexOk(c.actions, c.action_index)
  THEN Raise(c)
  ELSE LET action == Index(c.actions, c.action_index)
       IN CASE action = "DONE" ->
                 Result([c EXCEPT !.completing_progress = 0,
                                  !.state = "COMPLETING"], "complete")
            [] action = "HISTORY" ->
                 Result([c EXCEPT !.history_index = 0,
                                  !.state = "TASK_HISTORY"], "load_history")
            [] action = "DELETE" ->
                 Result([c EXCEPT !.delete_confirmed = FALSE,
                                  !.state = "DELETE_CONFIRM"], "none")
            [] action = "BACK" ->
                 Result([c EXCEPT !.state = "TASK_LIST"], "none")
            [] OTHER -> Result(c, "none")

\* press in the dialog with the two outcomes exchanged
press_delete_confirm_swapped(c) ==
  IF ~c.delete_confirmed
  THEN Result([c EXCEPT !.state = "TASK_LIST"], "delete")
  ELSE Result([c EXCEPT !.state = "TASK_ACTIONS"], "none")

press_delete_confirm(c) ==
  IF c.delete_confirmed
  THEN Result([c EXCEPT !.state = "TASK_LIST"], "delete")
  ELSE Result([c EXCEPT !.state = "TASK_ACTIONS"], "none")

press_task_history(c) == Result([c EXCEPT !.state = "TASK_ACTIONS"], "none")

\* press on Screen Timeout that switches the timeout off instead of toggling
press_settings_timeout_off(c) ==
  LET settings == SettingItem
  IN IF ~IndexOk(settings, c.setting_index)
     THEN Raise(c)
     ELSE LET setting == Index(settings, c.setting_index)
          IN CASE setting = "MANAGE_TASKS" ->
                    Result([c EXCEPT !.state = "QR_CODE"], "show_qr")
               [] setting = "SCREEN_TIMEOUT" ->
                    Result([c EXCEPT !.screen_timeout_enabled = FALSE],
                           "toggle_timeout")
               [] setting = "BACK" ->
                    Result([c EXCEPT !.state = "TASK_LIST"], "none")
               [] OTHER -> Result(c, "none")

press_settings(c) ==
  LET settings == SettingItem
  IN IF ~IndexOk(settings, c.setting_index)
     THEN Raise(c)
     ELSE LET setting == Index(settings, c.setting_index)
          IN CASE setting = "MANAGE_TASKS" ->
                    Result([c EXCEPT !.state = "QR_CODE"], "show_qr")
               [] setting = "SCREEN_TIMEOUT" ->
                    Result([c EXCEPT !.screen_timeout_enabled =
                                       ~c.screen_timeout_enabled], "toggle_timeout")
               [] setting = "BACK" ->
                    Result([c EXCEPT !.state = "TASK_LIST"], "none")
               [] OTHER -> Result(c, "none")

handle_press(c) ==
  CASE c.state = "TASK_LIST" -> press_task_list(c)
    [] c.state = "TASK_ACTIONS" -> press_task_actions(c)
    [] c.state = "DELETE_CONFIRM" -> press_delete_confirm(c)
    [] c.state = "TASK_HISTORY" -> press_task_history(c)
    [] c.state = "SETTINGS" -> press_settings(c)
    [] OTHER -> Result(c, "none")

(***************************************************************************)
(* ViewNavigator.handle_long_press                                         *)
(***************************************************************************)
\* long press in the task list that keeps the settings index of the last visit
long_press_task_list_keeps_index(c) ==
  Result([c EXCEPT !.state = "SETTINGS"], "none")

long_press_task_list(c) ==
  Result([c EXCEPT !.setting_index = 0, !.state = "SETTINGS"], "none")

long_press_qr_code(c) == Result([c EXCEPT !.state = "SETTINGS"], "none")

\* long press that goes back one level only: the dialog and the history
\* return to the action menu
long_press_back_one_level(c) ==
  IF c.state \in {"DELETE_CONFIRM", "TASK_HISTORY"}
  THEN Result([c EXCEPT !.state = "TASK_ACTIONS"], "none")
  ELSE Result([c EXCEPT !.state = "TASK_LIST"], "none")

long_press_back(c) == Result([c EXCEPT !.state = "TASK_LIST"], "none")

\* long press that cancels a running completion
long_press_completing_cancels(c) ==
  Result([c EXCEPT !.state = "TASK_ACTIONS"], "none")

long_press_completing(c) == Result(c, "none")

handle_long_press(c) ==
  CASE c.state = "TASK_LIST" -> long_press_task_list(c)
    [] c.state = "QR_CODE" -> long_press_qr_code(c)
    [] c.state \in {"TASK_ACTIONS", "DELETE_CONFIRM", "TASK_HISTORY", "SETTINGS"} ->
         long_press_back(c)
    [] c.state = "COMPLETING" -> long_press_completing(c)
    [] OTHER -> Result(c, "none")

(***************************************************************************)
(* KioskApp._complete_current_task: one pass of the animation loop writes  *)
(* min(progress, 1.0) into the context                                     *)
(***************************************************************************)
animation_progress(c, elapsed) ==
  [c EXCEPT !.completing_progress = Min(elapsed, ProgressSteps)]

(***************************************************************************)
(* State: the navigator's context, and what the last operation was, saw    *)
(* and returned                                                            *)
(***************************************************************************)
VARIABLES
  ctx,      \* ViewNavigator.ctx
  prev,     \* the context before the last operation
  event,    \* the last operation
  intent,   \* what the last operation returned
  raised,   \* TRUE once a handler has raised
  run,      \* the run of same-direction rotations in one menu ending here
  calc,     \* the last calls of the recurrence and urgency functions
  store,    \* the database: tasks, completion_history, and the clock
  sched,    \* for each task the due date it was given, its completions since
  txn,      \* the complete_task calls in flight, one per process
  enc,      \* the globals of encoder.py and last_clk of its polling loop
  clock,    \* time.time() of encoder.py, in tenths of a second
  btn,      \* what the button callbacks did so far
  rot,      \* the encoder's pins and what the polling loop made of them
  kiosk     \* where KioskApp is in handling an event

navVars == <<ctx, prev, event, intent, raised, run>>

\* the encoder handler of the Raspberry Pi deployment
devVars == <<enc, clock, btn, rot>>

vars == <<ctx, prev, event, intent, raised, run, calc, store, sched, txn,
          enc, clock, btn, rot, kiosk>>

\* the components besides the navigator
others == <<calc, store, sched, txn, enc, clock, btn, rot, kiosk>>

NoRun == [dir |-> "none", view |-> "none", base |-> 0, n |-> 0]

\* None, where a number is expected
Null == -1

\* no call of the recurrence and urgency functions has been made
NoCall == [op |-> "none", ref |-> [op |-> "none"]]

\* the database after _init_db: both tables empty
EmptyStore ==
  [tasks |-> <<>>, history |-> <<>>, task_seq |-> 0, history_seq |-> 0,
   now |-> 0]

NoSchedule == <<>>

\* the processes that share the database file
Callers == {"kiosk", "api"}

\* a process that is not inside complete_task
NotCalling == [pc |-> "none"]

NoCalls == [c \in Callers |-> NotCalling]

\* the globals of encoder.py when main() enters the polling loop
EncoderStart ==
  [last_button_time |-> 0, button_press_time |-> 0,
   last_activity_time |-> BootTime, screen_is_on |-> TRUE,
   screen_timeout_enabled |-> TRUE, backlight |-> TRUE, last_clk |-> FALSE]

\* no button callback has run
NoButton ==
  [press_seen |-> FALSE, uses |-> 0, prev_release |-> Null, prev_emit |-> Null,
   last |-> [op |-> "none", keys |-> <<>>]]

\* no iteration of the polling loop has run since time last passed; CLK was
\* high when last_clk was first read
NoPoll ==
  [polled |-> FALSE, last_clk |-> "HIGH", clk |-> "HIGH", dt |-> "HIGH",
   ok |-> FALSE]

\* the encoder at rest: CLK and DT pulled high, CLK sampled high before the
\* loop
AtRest ==
  [clk |-> "HIGH", dt |-> "HIGH", turning |-> FALSE, detents |-> 0,
   bounces |-> 0, events |-> 0, keys |-> <<>>, sampled |-> "HIGH",
   seen |-> NoPoll, loop |-> "poll"]

\* KioskApp before __init__ has loaded the tasks
\* the delete dialog has not been opened by a press on Delete, or another
\* event than a rotation has come since
NoConfirm == [open |-> FALSE, odd |-> FALSE]

\* the kiosk has made no call of complete_task or delete_task for the intent
\* at hand
NoStoreCall == [op |-> "none", task_id |-> 0, found |-> FALSE]

\* last_render_data of KioskApp.__init__ (Python None)
NoRenderData == [state |-> "None"]

\* no _render call has been made
NoRender ==
  [called |-> FALSE, previous |-> NoRenderData, this |-> NoRenderData,
   drawn |-> FALSE]

KioskStart ==
  [pc |-> "start", before |-> "none", failed |-> FALSE, elapsed |-> 0,
   held |-> <<>>, missed |-> FALSE, last_render_data |-> NoRenderData,
   shown |-> NoRender, calls |-> 0, call |-> NoStoreCall,
   confirm |-> NoConfirm, entered |-> 0, acted |-> 0]

NavInit ==
  /\ ctx = ViewContext
  /\ prev = ViewContext
  /\ event = "init"
  /\ intent = "none"
  /\ raised = FALSE
  /\ run = NoRun

\* the run after a rotation in direction dir: rotations of one direction in
\* the task list (with tasks) or in the action menu extend the run, up to
\* MaxRun; base is the index the run started from
NextRun(dir) ==
  IF ctx.state = "TASK_LIST" /\ ctx.tasks # <<>>
  THEN IF run.dir = dir /\ run.view = "TASK_LIST" /\ run.n < MaxRun
       THEN [run EXCEPT !.n = run.n + 1]
       ELSE [dir |-> dir, view |-> "TASK_LIST", base |-> ctx.task_index, n |-> 1]
  ELSE IF ctx.state = "TASK_ACTIONS"
  THEN IF run.dir = dir /\ run.view = "TASK_ACTIONS" /\ run.n < MaxRun
       THEN [run EXCEPT !.n = run.n + 1]
       ELSE [dir |-> dir, view |-> "TASK_ACTIONS", base |-> ctx.action_index, n |-> 1]
  ELSE NoRun

Init ==
  /\ NavInit
  /\ calc = NoCall
  /\ store = EmptyStore
  /\ sched = NoSchedule
  /\ txn = NoCalls
  /\ enc = EncoderStart
  /\ clock = BootTime
  /\ btn = NoButton
  /\ rot = AtRest
  /\ kiosk = KioskStart

\* the outcome r of a handler becomes the new state
Handled(ev, r) ==
  /\ ctx' = r.ctx
  /\ prev' = ctx
  /\ event' = ev
  /\ intent' = r.ret
  /\ raised' = (raised \/ r.raised)
  /\ UNCHANGED others

RotateCW ==
  /\ Handled("cw", handle_clockwise(ctx))
  /\ run' = NextRun("cw")

RotateCCW ==
  /\ Handled("ccw", handle_counter_clockwise(ctx))
  /\ run' = NextRun("ccw")

ShortPress ==
  /\ Handled("press", handle_press(ctx))
  /\ run' = NoRun

LongPress ==
  /\ Handled("long_press", handle_long_press(ctx))
  /\ run' = NoRun

SetTasks ==
  \E ts \in Snapshots :
    /\ Handled("set_tasks", Result(set_tasks(ctx, ts), "none"))
    /\ run' = NoRun

SetHistory ==
  \E h \in Histories :
    /\ Handled("set_history", Result(set_history(ctx, h), "none"))
    /\ run' = NoRun

CompleteAnimationDone ==
  /\ Handled("animation_done", Result(complete_animation_done(ctx), "none"))
  /\ run' = NoRun

AnimationTick ==
  /\ ctx.state = "COMPLETING"
  /\ \E elapsed \in 0..(ProgressSteps + 1) :
       Handled("animation_tick", Result(animation_progress(ctx, elapsed), "none"))
  /\ run' = NoRun

Next ==
  \/ RotateCW
  \/ RotateCCW
  \/ ShortPress
  \/ LongPress
  \/ SetTasks
  \/ SetHistory
  \/ CompleteAnimationDone
  \/ AnimationTick

Spec == Init /\ [][Next]_vars

TypeOK ==
  /\ ctx.state \in ViewState
  /\ ctx.tasks \in Snapshots
  /\ ctx.history \in Histories
  /\ intent \in Intents
  /\ raised \in BOOLEAN

(***************************************************************************)
(* Properties of the navigation state machine                              *)
(***************************************************************************)
Rotations == {"cw", "ccw"}

InputEvents == {"cw", "ccw", "press", "long_press"}

\* C1: N clockwise rotations in TaskList with M > 0 tasks starting from index
\* i end at (i + N) mod M, N counter-clockwise rotations at (i - N) mod M;
\* the action index in TaskActions wraps the same way modulo the 4 actions
\* Done, History, Delete, Back; with no task a rotation in TaskList changes
\* nothing.
C1_RotationWraps ==
  /\ ctx.actions = <<"DONE", "HISTORY", "DELETE", "BACK">>
  /\ (run.view = "TASK_LIST" /\ run.dir = "cw") =>
        /\ Len(ctx.tasks) > 0
        /\ ctx.task_index = (run.base + run.n) % Len(ctx.tasks)
  /\ (run.view = "TASK_LIST" /\ run.dir = "ccw") =>
        /\ Len(ctx.tasks) > 0
        /\ ctx.task_index = (run.base - run.n) % Len(ctx.tasks)
  /\ (run.view = "TASK_ACTIONS" /\ run.dir = "cw") =>
        ctx.action_index = (run.base + run.n) % 4
  /\ (run.view = "TASK_ACTIONS" /\ run.dir = "ccw") =>
        ctx.action_index = (run.base - run.n) % 4
  /\ (event \in Rotations /\ prev.state = "TASK_LIST" /\ prev.tasks = <<>>) =>
        (ctx = prev /\ intent = "none")

\* four clockwise rotations over three tasks, starting at the last one, have
\* wrapped around twice
C1_Witness ==
  /\ run.view = "TASK_LIST"
  /\ run.dir = "cw"
  /\ run.n = 4
  /\ run.base = 2
  /\ Len(ctx.tasks) = 3
  /\ ctx.task_index = 0

\* C2: a ShortPress in TaskList with at least one task moves to TaskActions
\* with the action index reset to 0, whatever it was before, and returns no
\* intent; with no task the press changes nothing.
C2_PressInTaskList ==
  (event = "press" /\ prev.state = "TASK_LIST") =>
     IF prev.tasks # <<>>
     THEN /\ ctx.state = "TASK_ACTIONS"
          /\ ctx.action_index = 0
          /\ intent = "none"
     ELSE /\ ctx = prev
          /\ intent = "none"

C2_Witness ==
  /\ event = "press"
  /\ prev.state = "TASK_LIST"
  /\ prev.action_index = 2
  /\ ctx.state = "TASK_ACTIONS"
  /\ ctx.action_index = 0

\* C3: a ShortPress in TaskActions acts on the selected action: Done sets the
\* progress to 0, moves to Completing and returns Complete; History sets the
\* history index to 0, moves to TaskHistory and returns LoadHistory; Delete
\* sets the confirm flag to false, moves to DeleteConfirm and returns nothing;
\* Back moves to TaskList and returns nothing.
C3_PressInTaskActions ==
  (event = "press" /\ prev.state = "TASK_ACTIONS") =>
     /\ prev.action_index \in 0..3
     /\ prev.action_index = 0 =>
          /\ ctx.completing_progress = 0
          /\ ctx.state = "COMPLETING"
          /\ intent = "complete"
     /\ prev.action_index = 1 =>
          /\ ctx.history_index = 0
          /\ ctx.state = "TASK_HISTORY"
          /\ intent = "load_history"
     /\ prev.action_index = 2 =>
          /\ ctx.delete_confirmed = FALSE
          /\ ctx.state = "DELETE_CONFIRM"
          /\ intent = "none"
     /\ prev.action_index = 3 =>
          /\ ctx.state = "TASK_LIST"
          /\ intent = "none"

\* Done pressed while the progress of an earlier completion is still stored
C3_Witness ==
  /\ event = "press"
  /\ prev.state = "TASK_ACTIONS"
  /\ prev.action_index = 0
  /\ prev.completing_progress > 0
  /\ ctx.state = "COMPLETING"
  /\ ctx.completing_progress = 0
  /\ intent = "complete"

\* C4: DeleteConfirm is always entered with the confirm flag false, and every
\* rotation in DeleteConfirm, in either direction, toggles the flag, so two
\* rotations in any combination of directions restore it.
C4_DeleteConfirmFlag ==
  [][/\ (ctx'.state = "DELETE_CONFIRM" /\ ctx.state # "DELETE_CONFIRM") =>
           ctx'.delete_confirmed = FALSE
     /\ (event' \in Rotations /\ ctx.state = "DELETE_CONFIRM") =>
           /\ ctx'.delete_confirmed = ~ctx.delete_confirmed
           /\ ctx'.state = "DELETE_CONFIRM"
     /\ (/\ event \in Rotations /\ prev.state = "DELETE_CONFIRM"
         /\ event' \in Rotations /\ ctx.state = "DELETE_CONFIRM") =>
           ctx'.delete_confirmed = prev.delete_confirmed]_vars

\* DeleteConfirm entered although an earlier visit left the flag true
C4_Witness ==
  /\ event = "press"
  /\ prev.state = "TASK_ACTIONS"
  /\ prev.delete_confirmed = TRUE
  /\ ctx.state = "DELETE_CONFIRM"
  /\ ctx.delete_confirmed = FALSE

\* C5: a ShortPress in DeleteConfirm with the flag true moves to TaskList and
\* returns Delete; with the flag false it moves to TaskActions and returns
\* nothing.
C5_PressInDeleteConfirm ==
  (event = "press" /\ prev.state = "DELETE_CONFIRM") =>
     IF prev.delete_confirmed
     THEN ctx.state = "TASK_LIST" /\ intent = "delete"
     ELSE ctx.state = "TASK_ACTIONS" /\ intent = "none"

C5_Witness ==
  /\ event = "press"
  /\ prev.state = "DELETE_CONFIRM"
  /\ prev.delete_confirmed = TRUE
  /\ ctx.state = "TASK_LIST"
  /\ intent = "delete"

\* C6: a LongPress in TaskActions, DeleteConfirm, TaskHistory or Settings
\* moves to TaskList whatever the indices and the flag, and a LongPress never
\* returns an intent.
C6_LongPressBack ==
  /\ event = "long_press" => intent = "none"
  /\ (/\ event = "long_press"
      /\ prev.state \in {"TASK_ACTIONS", "DELETE_CONFIRM", "TASK_HISTORY", "SETTINGS"}) =>
        ctx.state = "TASK_LIST"

\* a LongPress in DeleteConfirm with the flag true does not delete
C6_Witness ==
  /\ event = "long_press"
  /\ prev.state = "DELETE_CONFIRM"
  /\ prev.delete_confirmed = TRUE
  /\ ctx.state = "TASK_LIST"
  /\ intent = "none"

\* C7: set_tasks with no task forces Empty from every state; with tasks it
\* moves Empty to TaskList and leaves every other state as it was.  The state
\* after the first refresh is Empty or TaskList, and one task handed over in
\* Empty gives TaskList with task index 0.
C7_RefreshState ==
  event = "set_tasks" =>
     /\ ctx.tasks = <<>> => ctx.state = "EMPTY"
     /\ (ctx.tasks # <<>> /\ prev.state = "EMPTY") => ctx.state = "TASK_LIST"
     /\ (ctx.tasks # <<>> /\ prev.state # "EMPTY") => ctx.state = prev.state
     /\ prev = ViewContext =>
          ctx.state = (IF ctx.tasks = <<>> THEN "EMPTY" ELSE "TASK_LIST")
     /\ (prev.state = "EMPTY" /\ Len(ctx.tasks) = 1) =>
          (ctx.state = "TASK_LIST" /\ ctx.task_index = 0)

\* one task arrives in Empty while the index of an earlier list is stored
C7_Witness ==
  /\ event = "set_tasks"
  /\ prev.state = "EMPTY"
  /\ prev.task_index = 2
  /\ Len(ctx.tasks) = 1
  /\ ctx.state = "TASK_LIST"
  /\ ctx.task_index = 0

\* C8: after every set_tasks with N tasks, from any state and index,
\* 0 <= task_index <= max(0, N - 1), also for N = 0 after an index > 0.
C8_IndexClamped ==
  event = "set_tasks" =>
     /\ 0 <= ctx.task_index
     /\ ctx.task_index <= Max(0, Len(ctx.tasks) - 1)

\* C9: complete_animation_done moves the navigator from Completing to
\* TaskList unconditionally and changes no other field of the context.
C9_AnimationDone ==
  event = "animation_done" => ctx = [prev EXCEPT !.state = "TASK_LIST"]

C9_Witness ==
  /\ event = "animation_done"
  /\ prev.state = "COMPLETING"
  /\ prev.task_index > 0
  /\ prev.completing_progress > 0
  /\ ctx.state = "TASK_LIST"

\* C10: no handler of the four input events raises, and an event in a state
\* that has no transition for it (any event in Empty or Completing, a rotation
\* or ShortPress in QrCode) leaves the whole context unchanged and returns no
\* intent.
C10_NoRaiseNoOp ==
  /\ raised = FALSE
  /\ (event \in InputEvents /\ prev.state \in {"EMPTY", "COMPLETING"}) =>
        (ctx = prev /\ intent = "none")
  /\ (event \in {"cw", "ccw", "press"} /\ prev.state = "QR_CODE") =>
        (ctx = prev /\ intent = "none")

\* a ShortPress in Empty while the index of an earlier list is stored
C10_Witness ==
  /\ event = "press"
  /\ prev.state = "EMPTY"
  /\ prev.tasks = <<>>
  /\ prev.task_index > 0
  /\ ctx = prev
  /\ intent = "none"
  /\ raised = FALSE

\* C23: a ShortPress in Settings on Manage Tasks moves to QrCode and returns
\* ShowQr; on Screen Timeout it flips the flag, returns ToggleTimeout and
\* changes nothing else, so a second press restores the flag; on Back it
\* moves to TaskList and returns nothing.
C23_PressInSettings ==
  [][/\ (event' = "press" /\ ctx.state = "SETTINGS") =>
          /\ ctx.setting_index \in 0..2
          /\ ctx.setting_index = 0 =>
               (ctx'.state = "QR_CODE" /\ intent' = "show_qr")
          /\ ctx.setting_index = 1 =>
               /\ ctx' = [ctx EXCEPT !.screen_timeout_enabled = ~ @]
               /\ intent' = "toggle_timeout"
          /\ ctx.setting_index = 2 =>
               (ctx'.state = "TASK_LIST" /\ intent' = "none")
     /\ (/\ event = "press" /\ prev.state = "SETTINGS" /\ prev.setting_index = 1
         /\ event' = "press") =>
          /\ ctx'.screen_timeout_enabled = prev.screen_timeout_enabled
          /\ ctx'.state = "SETTINGS"]_vars

\* a press on Screen Timeout switched the timeout back on
C23_Witness ==
  /\ event = "press"
  /\ prev.state = "SETTINGS"
  /\ prev.setting_index = 1
  /\ prev.screen_timeout_enabled = FALSE
  /\ ctx = [prev EXCEPT !.screen_timeout_enabled = TRUE]
  /\ intent = "toggle_timeout"

\* C24: a rotation in TaskHistory or Settings moves the index by one and
\* stops at the ends: clockwise at the last entry and counter-clockwise at
\* index 0 change nothing, the history index stays within the history and
\* the settings index within the three settings, and with an empty history
\* no rotation changes the history index.
C24_ClampedRotations ==
  /\ 0 <= ctx.history_index
  /\ ctx.history_index <= Max(0, Len(ctx.history) - 1)
  /\ ctx.setting_index \in 0..2
  /\ (event = "cw" /\ prev.state = "TASK_HISTORY") =>
       ctx = [prev EXCEPT !.history_index =
                IF prev.history = <<>> THEN @
                ELSE IF @ = Len(prev.history) - 1 THEN @ ELSE @ + 1]
  /\ (event = "ccw" /\ prev.state = "TASK_HISTORY") =>
       ctx = [prev EXCEPT !.history_index = IF @ = 0 THEN 0 ELSE @ - 1]
  /\ (event = "cw" /\ prev.state = "SETTINGS") =>
       ctx = [prev EXCEPT !.setting_index = IF @ = 2 THEN 2 ELSE @ + 1]
  /\ (event = "ccw" /\ prev.state = "SETTINGS") =>
       ctx = [prev EXCEPT !.setting_index = IF @ = 0 THEN 0 ELSE @ - 1]

\* a counter-clockwise rotation at the first of two history entries
C24_Witness ==
  /\ event = "ccw"
  /\ prev.state = "TASK_HISTORY"
  /\ Len(prev.history) = 2
  /\ prev.history_index = 0
  /\ ctx = prev

\* C25: a LongPress in TaskList, with or without tasks, moves to Settings
\* with the settings index 0; a LongPress in QrCode moves to Settings and
\* keeps the settings index; neither changes anything else or returns an
\* intent.
C25_LongPressToSettings ==
  /\ (event = "long_press" /\ prev.state = "TASK_LIST") =>
       /\ ctx = [prev EXCEPT !.state = "SETTINGS", !.setting_index = 0]
       /\ intent = "none"
  /\ (event = "long_press" /\ prev.state = "QR_CODE") =>
       /\ ctx = [prev EXCEPT !.state = "SETTINGS"]
       /\ intent = "none"

\* a LongPress in TaskList after the settings were left through Back
C25_Witness ==
  /\ event = "long_press"
  /\ prev.state = "TASK_LIST"
  /\ prev.setting_index = 2
  /\ ctx.state = "SETTINGS"
  /\ ctx.setting_index = 0

\* C26: a LongPress in Completing leaves the state Completing and the whole
\* context as it was and returns no intent.
C26_NoCancel ==
  (event = "long_press" /\ prev.state = "COMPLETING") =>
     /\ ctx.state = "COMPLETING"
     /\ ctx = prev
     /\ intent = "none"

\* a LongPress while the animation is under way
C26_Witness ==
  /\ event = "long_press"
  /\ prev.state = "COMPLETING"
  /\ prev.completing_progress > 0
  /\ ctx = prev
  /\ intent = "none"

\* C32: after any sequence of navigator operations the action index is one
\* of the 4 actions, the setting index one of the 3 settings, the history
\* index is between 0 and max(0, len(history) - 1), and with a non-empty
\* task snapshot the task index is an index of it.
C32_IndicesInRange ==
  /\ 0 <= ctx.action_index /\ ctx.action_index < 4
  /\ 0 <= ctx.setting_index /\ ctx.setting_index < 3
  /\ 0 <= ctx.history_index
  /\ ctx.history_index <= Max(0, Len(ctx.history) - 1)
  /\ ctx.tasks # <<>> =>
       0 <= ctx.task_index /\ ctx.task_index < Len(ctx.tasks)

\* a refresh with fewer tasks than the index selected has moved the index to
\* the last task
C32_Witness ==
  /\ event = "set_tasks"
  /\ ctx.tasks # <<>>
  /\ prev.task_index >= Len(ctx.tasks)
  /\ ctx.task_index = Len(ctx.tasks) - 1

\* C34: in TASK_ACTIONS, DELETE_CONFIRM, COMPLETING and TASK_HISTORY a task
\* is selected (the snapshot is not empty and the task index is an index of
\* it), and a handler that returns complete, delete or load_history leaves
\* a task selected.
C34_TaskSelected ==
  /\ ctx.state \in {"TASK_ACTIONS", "DELETE_CONFIRM", "COMPLETING",
                    "TASK_HISTORY"}
       => /\ ctx.tasks # <<>>
          /\ 0 <= ctx.task_index
          /\ ctx.task_index < Len(ctx.tasks)
          /\ current_task(ctx) # 0
  /\ intent \in {"complete", "delete", "load_history"}
       => current_task(ctx) # 0

\* a refresh in the action menu has dropped the task that was selected and
\* another task is selected
C34_Witness ==
  /\ ctx.state = "TASK_ACTIONS"
  /\ event = "set_tasks"
  /\ prev.task_index >= Len(ctx.tasks)
  /\ current_task(ctx) # 0

(***************************************************************************)
(* Recurrence and urgency engine (database.py, models.py).  A date is a    *)
(* number of days; adding a timedelta to a date adds its days.             *)
(***************************************************************************)
RecurrenceType == {"daily", "weekly", "monthly", "yearly"}

Urgency == {"overdue", "today", "tomorrow", "week", "upcoming"}

\* datetime.timedelta(days=..., weeks=...) in days
timedelta(days, weeks) == days + 7 * weeks

\* next due date that takes a week for a day
calculate_next_due_week_is_day(from_date, recurrence_type, value) ==
  CASE recurrence_type = "daily" -> from_date + timedelta(value, 0)
    [] recurrence_type = "weekly" -> from_date + timedelta(value, 0)
    [] recurrence_type = "monthly" -> from_date + timedelta(value * 30, 0)
    [] recurrence_type = "yearly" -> from_date + timedelta(value * 365, 0)
    [] OTHER -> from_date + timedelta(value, 0)

\* next due date that always moves a daily task by one day
calculate_next_due_daily_one(from_date, recurrence_type, value) ==
  CASE recurrence_type = "daily" -> from_date + timedelta(1, 0)
    [] recurrence_type = "weekly" -> from_date + timedelta(0, value)
    [] recurrence_type = "monthly" -> from_date + timedelta(value * 30, 0)
    [] recurrence_type = "yearly" -> from_date + timedelta(value * 365, 0)
    [] OTHER -> from_date + timedelta(value, 0)

\* Database._calculate_next_due_from_date
calculate_next_due_from_date(from_date, recurrence_type, value) ==
  CASE recurrence_type = "daily" -> from_date + timedelta(value, 0)
    [] recurrence_type = "weekly" -> from_date + timedelta(0, value)
    [] recurrence_type = "monthly" -> from_date + timedelta(value * 30, 0)
    [] recurrence_type = "yearly" -> from_date + timedelta(value * 365, 0)
    [] OTHER -> from_date + timedelta(value, 0)

\* urgency that counts the seventh day as upcoming
from_days_week_excludes_7(days) ==
  IF days < 0 THEN "overdue"
  ELSE IF days = 0 THEN "today"
  ELSE IF days = 1 THEN "tomorrow"
  ELSE IF days < 7 THEN "week"
  ELSE "upcoming"

\* Urgency.from_days
from_days(days) ==
  IF days < 0 THEN "overdue"
  ELSE IF days = 0 THEN "today"
  ELSE IF days = 1 THEN "tomorrow"
  ELSE IF days <= 7 THEN "week"
  ELSE "upcoming"

(***************************************************************************)
(* Calls of the two functions with arguments from bounded sets.  calc      *)
(* holds the last call and, in ref, an earlier call of next_due that was   *)
(* kept for comparison.                                                    *)
(***************************************************************************)
Dates == 0..MaxDate

Values == 1..MaxValue

DaysUntilDue == (0 - MaxDays)..MaxDays

\* the call kept for comparison after the next call: the one kept so far,
\* or the last call if it was a call of next_due
KeptCalls ==
  {calc.ref} \cup
  (IF calc.op = "next_due"
   THEN {[op |-> "next_due", from_date |-> calc.from_date,
          recurrence_type |-> calc.recurrence_type, value |-> calc.value,
          result |-> calc.result]}
   ELSE {})

CallNextDue ==
  /\ \E d \in Dates, k \in RecurrenceType, v \in Values, r \in KeptCalls :
       calc' = [op |-> "next_due", from_date |-> d, recurrence_type |-> k,
                value |-> v,
                result |-> calculate_next_due_from_date(d, k, v),
                ref |-> r]
  /\ UNCHANGED <<navVars, store, sched, txn, devVars, kiosk>>

CallUrgency ==
  /\ \E days \in DaysUntilDue, r \in KeptCalls :
       calc' = [op |-> "urgency", days |-> days, result |-> from_days(days),
                ref |-> r]
  /\ UNCHANGED <<navVars, store, sched, txn, devVars, kiosk>>

EngineNext ==
  \/ CallNextDue
  \/ CallUrgency

EngineSpec == Init /\ [][EngineNext]_vars

\* days added per unit of each recurrence kind
DaysPerUnit(kind) ==
  CASE kind = "daily" -> 1
    [] kind = "weekly" -> 7
    [] kind = "monthly" -> 30
    [] kind = "yearly" -> 365

\* C13: next_due(date, kind, value) is date + value days for daily, + 7 x
\* value for weekly, + 30 x value for monthly and + 365 x value for yearly,
\* for every date, kind and positive value.
C13_NextDueFormula ==
  calc.op = "next_due" =>
     /\ calc.value > 0
     /\ calc.recurrence_type = "daily" =>
          calc.result = calc.from_date + calc.value
     /\ calc.recurrence_type = "weekly" =>
          calc.result = calc.from_date + 7 * calc.value
     /\ calc.recurrence_type = "monthly" =>
          calc.result = calc.from_date + 30 * calc.value
     /\ calc.recurrence_type = "yearly" =>
          calc.result = calc.from_date + 365 * calc.value

C13_Witness ==
  /\ calc.op = "next_due"
  /\ calc.recurrence_type = "weekly"
  /\ calc.value = 2
  /\ calc.from_date = 3
  /\ calc.result = 17

InUrgencyClass(u, days) ==
  CASE u = "overdue" -> days < 0
    [] u = "today" -> days = 0
    [] u = "tomorrow" -> days = 1
    [] u = "week" -> 2 <= days /\ days <= 7
    [] u = "upcoming" -> days > 7

\* C15: urgency maps every integer days-until-due to exactly one class:
\* Overdue below 0, Today for 0, Tomorrow for 1, Week for 2..7, Upcoming
\* above 7.
C15_UrgencyPartition ==
  calc.op = "urgency" =>
     /\ calc.result \in Urgency
     /\ InUrgencyClass(calc.result, calc.days)
     /\ Cardinality({u \in Urgency : InUrgencyClass(u, calc.days)}) = 1

C15_Witness ==
  /\ calc.op = "urgency"
  /\ calc.days = 7
  /\ calc.result = "week"

(***************************************************************************)
(* The task store (database.py).  tasks maps the ids of the rows of table  *)
(* tasks to their recurrence and due date, history is the rows of table    *)
(* completion_history in insertion order, task_seq and history_seq are the *)
(* AUTOINCREMENT counters, now is the clock in days.                       *)
(***************************************************************************)
Extend(f, k, v) == [x \in (DOMAIN f) \cup {k} |-> IF x = k THEN v ELSE f[x]]

Remove(f, k) == [x \in (DOMAIN f) \ {k} |-> f[x]]

\* COALESCE(?, column): the argument if one was given, else the old value
Coalesce(args, column, old) ==
  IF column \in DOMAIN args THEN args[column] ELSE old

\* Database.get_task finds a row
task_exists(s, task_id) == task_id \in DOMAIN s.tasks

\* Database.create_task
db_create_task(s, recurrence_type, recurrence_value, next_due_date) ==
  LET id == s.task_seq + 1
  IN [s EXCEPT !.task_seq = id,
               !.tasks = Extend(@, id,
                  [recurrence_type |-> recurrence_type,
                   recurrence_value |-> recurrence_value,
                   next_due_date |-> next_due_date])]

\* Database.update_task; args holds the arguments that are not None
db_update_task(s, task_id, args) ==
  IF ~task_exists(s, task_id)
  THEN s
  ELSE LET old == s.tasks[task_id]
       IN [s EXCEPT !.tasks[task_id] =
             [recurrence_type |->
                Coalesce(args, "recurrence_type", old.recurrence_type),
              recurrence_value |->
                Coalesce(args, "recurrence_value", old.recurrence_value),
              next_due_date |->
                Coalesce(args, "next_due_date", old.next_due_date)]]

\* the rows of completion_history that belong to a task
task_history(s, task_id) ==
  SelectSeq(s.history, LAMBDA r : r.task_id = task_id)

\* delete_task that leaves the completion records of the task in place
db_delete_task_keeps_history(s, task_id) ==
  [s EXCEPT !.tasks = Remove(@, task_id)]

\* Database.delete_task: the row goes, and with foreign_keys = ON and
\* ON DELETE CASCADE so do the completion records of the task
db_delete_task(s, task_id) ==
  [s EXCEPT !.tasks = Remove(@, task_id),
            !.history = SelectSeq(@, LAMBDA r : r.task_id # task_id)]

\* Database.get_last_completion: completed_at of the newest record of the
\* task, Null if it has none
last_completed_at(s, task_id) ==
  LET h == task_history(s, task_id)
  IN IF h = <<>>
     THEN Null
     ELSE CHOOSE t \in {h[i].completed_at : i \in 1..Len(h)} :
            \A i \in 1..Len(h) : h[i].completed_at <= t

\* the INSERT INTO completion_history of complete_task
insert_completion(s, task_id, now, days_since_last) ==
  LET id == s.history_seq + 1
  IN [s EXCEPT !.history_seq = id,
               !.history = Append(@, [id |-> id, task_id |-> task_id,
                                      completed_at |-> now,
                                      days_since_last |-> days_since_last])]

\* next due date counted from the day of the completion
complete_next_due_from_today(task, now) ==
  calculate_next_due_from_date(now, task.recurrence_type,
                               task.recurrence_value)

\* the next due date complete_task computes for the task it read
complete_next_due(task, now) ==
  calculate_next_due_from_date(task.next_due_date, task.recurrence_type,
                               task.recurrence_value)

\* a complete_task that records the completion before it looks for the task
db_complete_task_records_first(s, task_id) ==
  LET s1 == insert_completion(s, task_id, s.now, Null)
  IN IF ~task_exists(s, task_id)
     THEN s1
     ELSE db_update_task(s1, task_id,
            [next_due_date |-> complete_next_due(s.tasks[task_id], s.now)])

\* Database.complete_task
db_complete_task(s, task_id) ==
  IF ~task_exists(s, task_id)
  THEN s
  ELSE LET task == s.tasks[task_id]
           now == s.now
           last == last_completed_at(s, task_id)
           days_since_last == IF last = Null THEN Null ELSE now - last
           s1 == insert_completion(s, task_id, now, days_since_last)
           next_due == complete_next_due(task, now)
       IN db_update_task(s1, task_id, [next_due_date |-> next_due])

\* what Database.complete_task returns: the task, which its id stands for,
\* or None
db_complete_task_returns(s, task_id) ==
  IF task_exists(s, task_id) THEN task_id ELSE Null

\* what Database.delete_task returns: cursor.rowcount > 0
db_delete_task_returns(s, task_id) == task_exists(s, task_id)

(***************************************************************************)
(* The store driven by its callers (REST API, kiosk), one call at a time.  *)
(* sched holds for every task the due date it was last given by create or  *)
(* update and the number of completions since.                             *)
(***************************************************************************)
StoreIds == 1..MaxStoreTasks

\* the recurrences and due dates the callers hand to the store
StoreKinds == {"daily", "weekly"}

StoreValues == {2}

StoreDates == {0}

\* the arguments of update_task that are not None: none of the schedule
\* (a new name only) or one of its columns
UpdateArgs ==
  {[c \in {} |-> 0]}
  \cup {[recurrence_type |-> k] : k \in StoreKinds}
  \cup {[recurrence_value |-> v] : v \in StoreValues}
  \cup {[next_due_date |-> d] : d \in StoreDates}

StoreCreate ==
  /\ store.task_seq < MaxStoreTasks
  /\ \E k \in StoreKinds, v \in StoreValues, d \in StoreDates :
       /\ store' = db_create_task(store, k, v, d)
       /\ sched' = Extend(sched, store.task_seq + 1, [orig |-> d, k |-> 0])
  /\ UNCHANGED <<navVars, calc, txn, devVars, kiosk>>

StoreUpdate ==
  /\ \E id \in StoreIds, args \in UpdateArgs :
       /\ store' = db_update_task(store, id, args)
       /\ sched' = IF task_exists(store, id) /\ DOMAIN args # {}
                   THEN [sched EXCEPT ![id] =
                           [orig |-> store'.tasks[id].next_due_date,
                            k |-> 0]]
                   ELSE sched
  /\ UNCHANGED <<navVars, calc, txn, devVars, kiosk>>

StoreComplete ==
  /\ store.history_seq < MaxRecords
  /\ \E id \in StoreIds :
       /\ store' = db_complete_task(store, id)
       /\ sched' = IF task_exists(store, id)
                   THEN [sched EXCEPT ![id].k = @ + 1]
                   ELSE sched
  /\ UNCHANGED <<navVars, calc, txn, devVars, kiosk>>

StoreDelete ==
  /\ \E id \in StoreIds :
       /\ store' = db_delete_task(store, id)
       /\ sched' = Remove(sched, id)
  /\ UNCHANGED <<navVars, calc, txn, devVars, kiosk>>

\* three days pass between two calls
StoreTick ==
  /\ store.now + 3 <= MaxClock
  /\ store' = [store EXCEPT !.now = @ + 3]
  /\ UNCHANGED <<navVars, calc, sched, txn, devVars, kiosk>>

StoreNext ==
  \/ StoreCreate
  \/ StoreUpdate
  \/ StoreComplete
  \/ StoreDelete
  \/ StoreTick

StoreSpec == Init /\ [][StoreNext]_vars

(***************************************************************************)
(* The REST API (api.py) in front of the store.  A request body is a       *)
(* record of the JSON keys the client sent.                                *)
(***************************************************************************)
\* recurrenceValue as a client can send it: int() accepts every integer
ApiValues == {-1, 0, 1}

\* the bodies of POST /api/tasks that pass the parsing
CreateRequests ==
  [recurrenceType : StoreKinds, recurrenceValue : ApiValues,
   nextDueDate : StoreDates]

\* the bodies of PUT /api/tasks/<id>: a new name only, or one more key
UpdateRequests ==
  {[k \in {} |-> 0]}
  \cup {[recurrenceType |-> k] : k \in StoreKinds}
  \cup {[recurrenceValue |-> v] : v \in ApiValues}
  \cup {[nextDueDate |-> d] : d \in StoreDates}

\* the JSON key of a column of table tasks
JsonKey(column) ==
  CASE column = "recurrence_type" -> "recurrenceType"
    [] column = "recurrence_value" -> "recurrenceValue"
    [] column = "next_due_date" -> "nextDueDate"

\* api.create_task
api_create_task(s, data) ==
  db_create_task(s, data.recurrenceType, data.recurrenceValue,
                 data.nextDueDate)

\* api.update_task: a key that is absent is passed as None
api_update_task(s, task_id, data) ==
  LET given == {c \in {"recurrence_type", "recurrence_value", "next_due_date"} :
                  JsonKey(c) \in DOMAIN data}
  IN db_update_task(s, task_id, [c \in given |-> data[JsonKey(c)]])

\* api.complete_task
api_complete_task(s, task_id) == db_complete_task(s, task_id)

ApiCreate ==
  /\ store.task_seq < MaxStoreTasks
  /\ \E data \in CreateRequests : store' = api_create_task(store, data)
  /\ UNCHANGED <<navVars, calc, sched, txn, devVars, kiosk>>

ApiUpdate ==
  /\ \E id \in StoreIds, data \in UpdateRequests :
       store' = api_update_task(store, id, data)
  /\ UNCHANGED <<navVars, calc, sched, txn, devVars, kiosk>>

ApiComplete ==
  /\ store.history_seq < MaxRecords
  /\ \E id \in StoreIds : store' = api_complete_task(store, id)
  /\ UNCHANGED <<navVars, calc, sched, txn, devVars, kiosk>>

ApiNext ==
  \/ ApiCreate
  \/ ApiUpdate
  \/ ApiComplete

ApiSpec == Init /\ [][ApiNext]_vars

(***************************************************************************)
(* complete_task called by the kiosk and by the REST API process on the    *)
(* same database file.  A call is a read of the task and of its last       *)
(* completion, then the INSERT and the UPDATE, each in a transaction of    *)
(* its own; the steps of two calls interleave.                             *)
(***************************************************************************)
\* complete_task up to the INSERT: the row and the last completion it read
complete_task_read(s, task_id) ==
  LET last == last_completed_at(s, task_id)
  IN [pc |-> "read", task_id |-> task_id, task |-> s.tasks[task_id],
      now |-> s.now,
      days_since_last |-> IF last = Null THEN Null ELSE s.now - last]

\* the INSERT of a call that has read
complete_task_insert(s, call) ==
  insert_completion(s, call.task_id, call.now, call.days_since_last)

\* the update_task at the end of a call: the next due date is counted from
\* the due date the call read at its start
complete_task_update(s, call) ==
  db_update_task(s, call.task_id,
                 [next_due_date |-> complete_next_due(call.task, call.now)])

\* the calls that have read and not yet inserted
Reading == {c \in Callers : txn[c].pc = "read"}

\* get_task and get_last_completion of a call; a task that is not found
\* ends the call
CompleteRead(c) ==
  /\ txn[c].pc = "none"
  /\ store.history_seq + Cardinality(Reading) < MaxRecords
  /\ \E id \in StoreIds :
       txn' = IF task_exists(store, id)
              THEN [txn EXCEPT ![c] = complete_task_read(store, id)]
              ELSE txn
  /\ UNCHANGED <<navVars, calc, store, sched, devVars, kiosk>>

CompleteInsert(c) ==
  /\ txn[c].pc = "read"
  /\ store' = complete_task_insert(store, txn[c])
  /\ txn' = [txn EXCEPT ![c].pc = "inserted"]
  /\ UNCHANGED <<navVars, calc, sched, devVars, kiosk>>

CompleteUpdate(c) ==
  /\ txn[c].pc = "inserted"
  /\ store' = complete_task_update(store, txn[c])
  /\ txn' = [txn EXCEPT ![c] = NotCalling]
  /\ UNCHANGED <<navVars, calc, sched, devVars, kiosk>>

KioskCompletes ==
  \/ CompleteRead("kiosk")
  \/ CompleteInsert("kiosk")
  \/ CompleteUpdate("kiosk")

ApiCompletes ==
  \/ CompleteRead("api")
  \/ CompleteInsert("api")
  \/ CompleteUpdate("api")

SharedNext ==
  \/ StoreCreate
  \/ StoreTick
  \/ KioskCompletes
  \/ ApiCompletes

SharedSpec == Init /\ [][SharedNext]_vars

(***************************************************************************)
(* Claims about the store                                                  *)
(***************************************************************************)
\* the recurrence interval of a stored task, in days
Interval(task) == DaysPerUnit(task.recurrence_type) * task.recurrence_value

\* the completion records of a task, oldest first
RecordsOf(id) == task_history(store, id)

\* C12: after k completions of a task its next-due date is the due date it
\* was given plus k times its recurrence interval, on whatever days the
\* completions happened; a completion adds the interval to the previous
\* next-due date and never to the day of the completion.
C12_DueFromPreviousDue ==
  \A id \in DOMAIN store.tasks :
    store.tasks[id].next_due_date
      = sched[id].orig + sched[id].k * Interval(store.tasks[id])

\* a daily x 2 task due on day 0 was completed on day 3, three days overdue,
\* and again on day 6: it is due on day 4
C12_Witness ==
  \E id \in DOMAIN store.tasks :
    /\ store.tasks[id].recurrence_type = "daily"
    /\ store.tasks[id].recurrence_value = 2
    /\ sched[id] = [orig |-> 0, k |-> 2]
    /\ Len(RecordsOf(id)) = 2
    /\ RecordsOf(id)[1].completed_at = 3
    /\ RecordsOf(id)[2].completed_at = 6
    /\ store.tasks[id].next_due_date = 4

\* the step was a completion of the existing task id
Completed(id) ==
  /\ id \in DOMAIN sched
  /\ id \in DOMAIN sched'
  /\ sched'[id].k = sched[id].k + 1

\* C16 as stated: completion records are append-only, no store operation
\* removes or modifies an existing record.
C16_AppendOnly ==
  [][\A i \in 1..Len(store.history) :
       \E j \in 1..Len(store'.history) :
         store'.history[j] = store.history[i]]_vars

\* C16 amended: a completion of an existing task appends exactly one record,
\* for that task, and leaves the others as they were; every other operation
\* appends nothing and changes no record, and removes exactly the records of
\* a task it deletes.
C16_AppendOnlyUntilDelete ==
  [][/\ \A id \in StoreIds :
          Completed(id) =>
            /\ Len(store'.history) = Len(store.history) + 1
            /\ SubSeq(store'.history, 1, Len(store.history)) = store.history
            /\ store'.history[Len(store'.history)].task_id = id
     /\ (~ \E id \in StoreIds : Completed(id)) =>
          store'.history =
            SelectSeq(store.history,
                      LAMBDA r : r.task_id \in DOMAIN store'.tasks)]_vars

\* a task with a completion record was deleted while a record of another
\* task stays
C16_Witness ==
  /\ Len(store.history) > 0
  /\ Len(store.history) < store.history_seq
  /\ \A i \in 1..Len(store.history) :
       store.history[i].task_id \in DOMAIN store.tasks

\* C40: when complete_task calls of the kiosk and of the REST API have
\* interleaved and none is in flight, the next-due date of every task is the
\* due date it was given plus its number of completion records times its
\* interval: no completion is recorded without advancing the due date.
C40_InterleavedCompletions ==
  (\A c \in Callers : txn[c].pc = "none") =>
    \A id \in DOMAIN store.tasks :
      store.tasks[id].next_due_date
        = sched[id].orig + Len(RecordsOf(id)) * Interval(store.tasks[id])

(***************************************************************************)
(* The button callbacks of encoder.py                                      *)
(***************************************************************************)
\* record_activity at time t; ok says whether set_backlight(True) succeeds
\* when the screen is off
record_activity(e, t, ok) ==
  LET e1 == [e EXCEPT !.last_activity_time = t]
  IN IF ~ e1.screen_is_on /\ ok
     THEN [e1 EXCEPT !.screen_is_on = TRUE, !.backlight = TRUE]
     ELSE e1

on_button_pressed(e, t, ok) ==
  [record_activity(e, t, ok) EXCEPT !.button_press_time = t]

\* a debounce window counted from the press instead of the last action
debounced_from_press(e, t) == t - e.button_press_time < BUTTON_DEBOUNCE

\* the debounce check of on_button_released
debounced(e, t) == t - e.last_button_time < BUTTON_DEBOUNCE

\* a long press only when held strictly longer than the threshold
classify_strictly_longer(press_duration) ==
  IF press_duration > LONG_PRESS_TIME THEN "Escape" ELSE "Return"

\* the key on_button_released sends for a press of this duration
classify(press_duration) ==
  IF press_duration >= LONG_PRESS_TIME THEN "Escape" ELSE "Return"

\* on_button_released at time t: the new globals and the keys sent
on_button_released(e, t) ==
  IF debounced(e, t)
  THEN [enc |-> e, keys |-> <<>>]
  ELSE [enc |-> [e EXCEPT !.last_button_time = t],
        keys |-> <<classify(t - e.button_press_time)>>]

\* the time from an earlier moment to now, Null if there was none
Since(t) == IF t = Null THEN Null ELSE clock - t

\* gpiozero runs when_pressed
\* last keeps whether the backlight could be switched on
ButtonPressed ==
  /\ \E ok \in BOOLEAN :
       /\ enc' = on_button_pressed(enc, clock, ok)
       /\ btn' = [btn EXCEPT !.press_seen = TRUE, !.uses = 0,
                             !.last = [op |-> "press", keys |-> <<>>,
                                       ok |-> ok]]
  /\ UNCHANGED <<navVars, calc, store, sched, txn, clock, rot, kiosk>>

\* gpiozero runs when_released; last keeps the time since the previous
\* release callback, since the previous one that sent a key, and since the
\* press timestamp
ButtonReleased ==
  LET r == on_button_released(enc, clock)
  IN /\ enc' = r.enc
     /\ btn' = [btn EXCEPT
                  !.uses = IF r.keys # <<>> THEN Min(@ + 1, 2) ELSE @,
                  !.prev_release = clock,
                  !.prev_emit = IF r.keys # <<>> THEN clock ELSE @,
                  !.last = [op |-> "release", keys |-> r.keys,
                            gap |-> Since(btn.prev_release),
                            emit_gap |-> Since(btn.prev_emit),
                            duration |-> clock - enc.button_press_time]]
     /\ UNCHANGED <<navVars, calc, store, sched, txn, clock, rot, kiosk>>

\* a tenth of a second passes
TimePasses ==
  /\ clock < BootTime + MaxTime
  /\ clock' = clock + 1
  /\ btn' = [btn EXCEPT !.last = [op |-> "wait", keys |-> <<>>]]
  /\ rot' = [rot EXCEPT !.keys = <<>>, !.seen = NoPoll]
  /\ UNCHANGED <<navVars, calc, store, sched, txn, enc, kiosk>>

ButtonNext ==
  \/ ButtonPressed
  \/ ButtonReleased
  \/ TimePasses

ButtonSpec == Init /\ [][ButtonNext]_vars

(***************************************************************************)
(* Claims about the button classifier                                      *)
(***************************************************************************)
Released == btn.last.op = "release"

\* C17 as stated: a release less than the debounce window after the
\* previous release sends no key.
C17_DebouncedSincePreviousRelease ==
  (Released /\ btn.last.gap # Null /\ btn.last.gap < BUTTON_DEBOUNCE)
    => btn.last.keys = <<>>

\* C17 amended: a release less than the debounce window after the previous
\* release that sent a key sends no key (a discarded release does not
\* restart the window).
C17_DebouncedSinceLastEvent ==
  (Released /\ btn.last.emit_gap # Null /\ btn.last.emit_gap < BUTTON_DEBOUNCE)
    => btn.last.keys = <<>>

\* a release a tenth of a second after one that sent a key was discarded
C17_Witness ==
  /\ Released
  /\ btn.last.emit_gap = 1
  /\ btn.last.keys = <<>>

\* the release is outside the debounce window of the last release that sent
\* a key
NotDiscarded ==
  /\ Released
  /\ (btn.last.emit_gap = Null \/ btn.last.emit_gap >= BUTTON_DEBOUNCE)

C19_ClassifiedOnce == btn.press_seen => btn.uses <= 1

(***************************************************************************)
(* The polling loop of encoder.py and the encoder it samples               *)
(***************************************************************************)
\* screen_off; ok says whether set_backlight(False) succeeds
screen_off(e, ok) ==
  IF e.screen_is_on /\ ok
  THEN [e EXCEPT !.screen_is_on = FALSE, !.backlight = FALSE]
  ELSE e

\* a decoder that sends a key on every change of CLK
decode_any_edge(e, clk_state, dt_state, t, ok_on) ==
  LET edge == clk_state # e.last_clk
      e1 == IF edge THEN record_activity(e, t, ok_on) ELSE e
  IN [enc |-> [e1 EXCEPT !.last_clk = clk_state],
      keys |-> IF edge
               THEN <<IF ~ dt_state THEN "Down" ELSE "Up">> ELSE <<>>]

\* the decoding part of an iteration of the polling loop at time t, with the
\* pin states read: a falling edge of CLK (is_pressed turns TRUE) sends Down
\* if DT is high and Up if it is low
decode(e, clk_state, dt_state, t, ok_on) ==
  LET edge == clk_state /\ ~ e.last_clk
      e1 == IF edge THEN record_activity(e, t, ok_on) ELSE e
  IN [enc |-> [e1 EXCEPT !.last_clk = clk_state],
      keys |-> IF edge
               THEN <<IF ~ dt_state THEN "Down" ELSE "Up">> ELSE <<>>]

\* the idle check of the loop
idle(e, t) ==
  /\ e.screen_timeout_enabled
  /\ e.screen_is_on
  /\ t - e.last_activity_time > IDLE_TIMEOUT

\* one iteration of the polling loop: the decoding, then the idle check
poll(e, clk_state, dt_state, t, ok_on, ok_off) ==
  LET r == decode(e, clk_state, dt_state, t, ok_on)
  IN [enc |-> IF idle(r.enc, t) THEN screen_off(r.enc, ok_off) ELSE r.enc,
      keys |-> r.keys]

Directions == {"cw", "ccw"}

\* the other level of a pin
Flip(level) == IF level = "HIGH" THEN "LOW" ELSE "HIGH"

\* Button.is_pressed of a pin with pull_up=True: pressed is low
is_pressed(level) == level = "LOW"

\* The knob enters a detent: CLK goes low, DT is high when turned clockwise
\* and low when turned counter-clockwise
DetentBegins ==
  /\ ~ rot.turning
  /\ rot.detents < MaxDetents
  /\ \E d \in Directions :
       rot' = [rot EXCEPT !.clk = "LOW",
                          !.dt = IF d = "cw" THEN "HIGH" ELSE "LOW",
                          !.turning = TRUE, !.detents = @ + 1, !.bounces = 0]
  /\ UNCHANGED <<navVars, calc, store, sched, txn, enc, clock, btn, kiosk>>

\* the CLK contact chatters while the knob is in the detent
Bounce ==
  /\ rot.turning
  /\ rot.bounces < MaxBounce
  /\ rot' = [rot EXCEPT !.clk = Flip(@), !.bounces = @ + 1]
  /\ UNCHANGED <<navVars, calc, store, sched, txn, enc, clock, btn, kiosk>>

\* the knob leaves the detent: CLK and DT are high again
DetentEnds ==
  /\ rot.turning
  /\ rot' = [rot EXCEPT !.clk = "HIGH", !.dt = "HIGH", !.turning = FALSE]
  /\ UNCHANGED <<navVars, calc, store, sched, txn, enc, clock, btn, kiosk>>

\* one iteration of the while loop; seen keeps the levels of CLK at the
\* previous and at this iteration and of DT at this one, and whether the
\* backlight could be switched on
Poll ==
  /\ \E ok_on \in BOOLEAN, ok_off \in BOOLEAN :
       LET r == poll(enc, is_pressed(rot.clk), is_pressed(rot.dt), clock,
                     ok_on, ok_off)
       IN /\ enc' = r.enc
          /\ rot' = [rot EXCEPT
                       !.events = @ + Len(r.keys), !.keys = r.keys,
                       !.sampled = rot.clk,
                       !.seen = [polled |-> TRUE, last_clk |-> rot.sampled,
                                 clk |-> rot.clk, dt |-> rot.dt, ok |-> ok_on]]
  /\ UNCHANGED <<navVars, calc, store, sched, txn, clock, btn, kiosk>>

\* nothing happens for longer than the idle timeout
LongIdle ==
  /\ clock <= BootTime + MaxTime
  /\ clock' = clock + IDLE_TIMEOUT + 1
  /\ btn' = [btn EXCEPT !.last = [op |-> "wait", keys |-> <<>>]]
  /\ rot' = [rot EXCEPT !.keys = <<>>, !.seen = NoPoll]
  /\ UNCHANGED <<navVars, calc, store, sched, txn, enc, kiosk>>

\* SettingsHandler.do_POST with screenTimeoutEnabled
SettingsPost ==
  /\ \E b \in BOOLEAN : enc' = [enc EXCEPT !.screen_timeout_enabled = b]
  /\ UNCHANGED <<navVars, calc, store, sched, txn, clock, btn, rot, kiosk>>

EncoderNext ==
  \/ DetentBegins
  \/ Bounce
  \/ DetentEnds
  \/ Poll
  \/ TimePasses
  \/ LongIdle
  \/ SettingsPost

EncoderSpec == Init /\ [][EncoderNext]_vars

\* The loop step by step, as the button callback thread finds it.
\* rot.loop is the position of the loop: "poll" at the top of an iteration,
\* "idle" when the idle check has passed, "switched" when screen_off has
\* switched the backlight off and not yet cleared screen_is_on.
\* The iteration up to the idle check
LoopDecode ==
  /\ rot.loop = "poll"
  /\ \E ok_on \in BOOLEAN :
       LET r == decode(enc, is_pressed(rot.clk), is_pressed(rot.dt), clock,
                       ok_on)
       IN /\ enc' = r.enc
          /\ rot' = [rot EXCEPT
                       !.events = @ + Len(r.keys), !.keys = r.keys,
                       !.sampled = rot.clk,
                       !.seen = [polled |-> TRUE, last_clk |-> rot.sampled,
                                 clk |-> rot.clk, dt |-> rot.dt, ok |-> ok_on],
                       !.loop = IF idle(r.enc, clock) THEN "idle" ELSE "poll"]
  /\ UNCHANGED <<navVars, calc, store, sched, txn, clock, btn, kiosk>>

\* screen_off up to the return of set_backlight(False)
LoopSwitchOff ==
  /\ rot.loop = "idle"
  /\ \E ok_off \in BOOLEAN :
       IF enc.screen_is_on /\ ok_off
       THEN /\ enc' = [enc EXCEPT !.backlight = FALSE]
            /\ rot' = [rot EXCEPT !.loop = "switched"]
       ELSE /\ enc' = enc
            /\ rot' = [rot EXCEPT !.loop = "poll"]
  /\ UNCHANGED <<navVars, calc, store, sched, txn, clock, btn, kiosk>>

\* screen_off clears screen_is_on
LoopMarkOff ==
  /\ rot.loop = "switched"
  /\ enc' = [enc EXCEPT !.screen_is_on = FALSE]
  /\ rot' = [rot EXCEPT !.loop = "poll"]
  /\ UNCHANGED <<navVars, calc, store, sched, txn, clock, btn, kiosk>>

\* the button callback thread and the loop together
BacklightNext ==
  \/ ButtonPressed
  \/ DetentBegins
  \/ DetentEnds
  \/ LoopDecode
  \/ LoopSwitchOff
  \/ LoopMarkOff
  \/ LongIdle
  \/ SettingsPost

BacklightSpec == Init /\ [][BacklightNext]_vars

(***************************************************************************)
(* Claims about the quadrature decoder                                     *)
(***************************************************************************)
\* C20: the decoder has sent no more rotation keys than the knob has been
\* turned through detents, whatever the CLK contact does within a detent.
C20_OneEventPerDetent == rot.events <= rot.detents

\* C21: an iteration of the polling loop that finds CLK unchanged, or finds
\* it risen, sends no key; one that finds CLK fallen from high to low sends
\* exactly one key, Down (clockwise) when it reads DT high and Up
\* (counter-clockwise) when it reads DT low.
C21_FallingEdgeOnly ==
  rot.seen.polled =>
    rot.keys = IF rot.seen.last_clk = "HIGH" /\ rot.seen.clk = "LOW"
               THEN <<IF rot.seen.dt = "HIGH" THEN "Down" ELSE "Up">>
               ELSE <<>>

\* a falling edge read with DT low has sent Up
C21_Witness ==
  /\ rot.seen.polled
  /\ rot.seen.last_clk = "HIGH"
  /\ rot.seen.clk = "LOW"
  /\ rot.seen.dt = "LOW"
  /\ rot.keys = <<"Up">>

(***************************************************************************)
(* Claims about the backlight                                              *)
(***************************************************************************)
\* the activity is recorded now and the screen is lit
Awake ==
  /\ enc.last_activity_time = clock
  /\ enc.screen_is_on
  /\ enc.backlight

\* C22: when a button press, or an iteration of the loop that sent a
\* rotation key, returns, and the backlight device could be switched on, the
\* activity time is the time of the input and the backlight is on, however
\* long the device was idle.
C22_WakeOnInput ==
  [][/\ (ButtonPressed /\ btn'.last.ok) => Awake'
     /\ (LoopDecode /\ rot'.keys # <<>> /\ rot'.seen.ok) => Awake']_vars

\* the screen is dark and marked off although the last activity is recent
DarkWhileActive ==
  /\ ~ enc.backlight
  /\ ~ enc.screen_is_on
  /\ clock - enc.last_activity_time < IDLE_TIMEOUT

\* C39: however the button callback interleaves with the idle check and the
\* switch-off of the loop, when screen_off has finished the screen is not
\* dark and marked off with less than IDLE_TIMEOUT elapsed since the last
\* recorded activity.
C39_NoSwitchOffAfterActivity ==
  [][(LoopSwitchOff \/ LoopMarkOff) => ~ DarkWhileActive']_vars

(***************************************************************************)
(* KioskApp: the main loop hands each event to the navigator and carries   *)
(* out the intent it returns.  The store is shared with the REST API: its  *)
(* calls return any snapshot or history, or raise.                         *)
(***************************************************************************)
\* ViewNavigator.set_task_counts: the counts are no part of the context
set_task_counts(c) == c

\* the navigator call of _handle_event
handle_event(ev, c) ==
  CASE ev = "cw" -> handle_clockwise(c)
    [] ev = "ccw" -> handle_counter_clockwise(c)
    [] ev = "press" -> handle_press(c)
    [] ev = "long_press" -> handle_long_press(c)

\* KioskApp at rest in the main loop, or stopped by an exception
Waiting == [kiosk EXCEPT !.pc = "idle", !.elapsed = 0]

Stopped(failed) == [kiosk EXCEPT !.pc = "stopped", !.failed = failed]

\* what a kiosk step leaves of the navigator's history
KioskStep(ev, ret) ==
  /\ prev' = ctx
  /\ event' = ev
  /\ intent' = ret
  /\ run' = NoRun
  /\ UNCHANGED <<calc, sched, txn, devVars>>

\* Task.to_display_dict and CompletionRecord.to_display_dict: the fields
\* shown of a task or of a completion record, which its id stands for
to_display_dict(item) == [id |-> item]

\* ViewNavigator.get_render_data
get_render_data(c) ==
  LET task == current_task(c)
  IN CASE c.state = "TASK_LIST" /\ task # 0 ->
            [state |-> c.state, task |-> to_display_dict(task),
             index |-> c.task_index, total |-> Len(c.tasks)]
       [] c.state = "TASK_ACTIONS" /\ task # 0 ->
            [state |-> c.state, task_name |-> task,
             selected |-> c.action_index, options |-> c.actions]
       [] c.state = "DELETE_CONFIRM" /\ task # 0 ->
            [state |-> c.state, task_name |-> task,
             confirm_selected |-> c.delete_confirmed]
       [] c.state = "COMPLETING" /\ task # 0 ->
            [state |-> c.state, task_name |-> task,
             progress |-> c.completing_progress]
       [] c.state = "TASK_HISTORY" /\ task # 0 ->
            [state |-> c.state, task_name |-> task,
             entries |-> [i \in 1..Len(c.history) |->
                            to_display_dict(c.history[i])],
             selected |-> c.history_index]
       [] c.state = "SETTINGS" ->
            [state |-> c.state, selected |-> c.setting_index,
             screen_timeout_enabled |-> c.screen_timeout_enabled]
       [] OTHER -> [state |-> c.state]

\* the dispatch of _render calls a render_* method of the controller unless
\* a key it reads is missing (KeyError, caught and printed)
reaches_renderer(render_data) ==
  render_data.state \in {"TASK_ACTIONS", "DELETE_CONFIRM", "COMPLETING",
                         "TASK_HISTORY"}
    => "task_name" \in DOMAIN render_data

\* a _render that never skips
render_unconditional(k, c) ==
  LET render_data == get_render_data(c)
  IN [k EXCEPT !.last_render_data = render_data,
               !.shown = [called |-> TRUE, previous |-> k.shown.this,
                          this |-> render_data,
                          drawn |-> reaches_renderer(render_data)]]

\* KioskApp._render with the context c; shown keeps the snapshots of the
\* previous call and of this one and whether the renderer was called
render(k, c) ==
  LET render_data == get_render_data(c)
  IN IF render_data = k.last_render_data
     THEN [k EXCEPT !.shown = [called |-> TRUE, previous |-> k.shown.this,
                               this |-> render_data, drawn |-> FALSE]]
     ELSE [k EXCEPT !.last_render_data = render_data,
                    !.shown = [called |-> TRUE, previous |-> k.shown.this,
                               this |-> render_data,
                               drawn |-> reaches_renderer(render_data)]]

\* Before the kiosk starts the REST API has created tasks and deleted all
\* but the newest: the ids the kiosk will ask for are those of deleted tasks
TasksDeletedBefore ==
  /\ kiosk.pc = "start"
  /\ store = EmptyStore
  /\ \E v \in StoreValues, d \in StoreDates :
       store' = db_create_task([EmptyStore EXCEPT !.task_seq = MaxTasks],
                               "daily", v, d)
  /\ UNCHANGED <<navVars, calc, sched, txn, devVars, kiosk>>

\* KioskApp.__init__: _load_counts and _load_tasks; then the first _render
\* of run.  The kiosk starts on the store the REST API has left.
KioskInit ==
  /\ kiosk.pc = "start"
  /\ store # EmptyStore
  /\ \E ts \in Snapshots :
       /\ ctx' = set_tasks(set_task_counts(ctx), ts)
       /\ kiosk' = render(Waiting, set_tasks(set_task_counts(ctx), ts))
  /\ raised' = raised
  /\ store' = store
  /\ KioskStep("set_tasks", "none")

\* _delete_current_task after the navigator returned "delete"
delete_current_task(c, fails, ts) ==
  IF current_task(c) = 0
  THEN [ctx |-> c, failed |-> FALSE]
  ELSE IF fails
  THEN [ctx |-> c, failed |-> TRUE]
  ELSE [ctx |-> set_tasks(set_task_counts(c), ts), failed |-> FALSE]

\* _load_history after the navigator returned "load_history"
load_history(c, fails, h) ==
  IF current_task(c) = 0
  THEN [ctx |-> c, failed |-> FALSE]
  ELSE IF fails
  THEN [ctx |-> c, failed |-> TRUE]
  ELSE [ctx |-> set_history(c, h), failed |-> FALSE]

\* what the store call made for an intent can do: fail or not, and the
\* snapshot or history it returns
StoreOutcomes(ret) ==
  IF ret \in {"delete", "load_history"} THEN BOOLEAN ELSE {FALSE}

StoreTasks(ret) == IF ret = "delete" THEN Snapshots ELSE {<<>>}

StoreHistories(ret) == IF ret = "load_history" THEN Histories ELSE {<<>>}

\* a loop that polls the encoder while a completion is under way
polling_while_completing(k) == k.pc \notin {"start", "stopped"}

\* KioskApp.run polls the encoder at the top of an iteration of its loop,
\* when no handler is running
polling(k) == k.pc = "idle"

\* KioskController between two polls: a sample of the pins is transient, an
\* input made while nothing polls is not kept
controller_input(held, ev) == <<>>

\* KioskController.poll_encoder: the events a poll can return, an input the
\* controller holds first
poll_encoder(held) == IF held = <<>> THEN InputEvents ELSE {Head(held)}

\* the positions of _complete_current_task
Busy == {"animating", "writing", "loading", "finishing"}

\* the user turns or presses the knob while _complete_current_task runs
InputDuringCompletion ==
  /\ kiosk.pc \in Busy
  /\ ~ kiosk.missed
  /\ \E ev \in InputEvents :
       kiosk' = [kiosk EXCEPT !.missed = TRUE,
                              !.held = controller_input(@, ev)]
  /\ UNCHANGED <<navVars, calc, store, sched, txn, devVars>>

\* the while condition of the animation loop left out
animation_skipped(elapsed) == FALSE

\* the while condition of the animation loop: the duration has not elapsed
animation_running(elapsed) == elapsed < ProgressSteps

\* the events since the last press on the Delete action, as long as they
\* are rotations: whether their number is odd
Confirming(k, c, ev) ==
  IF /\ ev = "press"
     /\ c.state = "TASK_ACTIONS"
     /\ IndexOk(c.actions, c.action_index)
     /\ Index(c.actions, c.action_index) = "DELETE"
  THEN [open |-> TRUE, odd |-> FALSE]
  ELSE IF ev \in Rotations /\ k.confirm.open
  THEN [open |-> TRUE, odd |-> ~ k.confirm.odd]
  ELSE NoConfirm

\* the task that was selected when the action menu was entered from the
\* task list, 0 outside the menu and the views under it
Entered(k, c, ev, after) ==
  IF after.state \notin {"TASK_ACTIONS", "DELETE_CONFIRM", "COMPLETING",
                         "TASK_HISTORY"}
  THEN 0
  ELSE IF ev = "press" /\ c.state = "TASK_LIST"
  THEN current_task(c)
  ELSE k.entered

\* _handle_event for one polled event: the navigator's handler, then the
\* intent; a Complete intent starts the animation; when _handle_event has
\* returned, _render
KioskEvent ==
  /\ polling(kiosk)
  /\ \E ev \in poll_encoder(kiosk.held) :
     \E fails \in StoreOutcomes(handle_event(ev, ctx).ret),
        ts \in StoreTasks(handle_event(ev, ctx).ret),
        h \in StoreHistories(handle_event(ev, ctx).ret) :
       LET r == handle_event(ev, ctx)
           done == CASE r.ret = "delete" ->
                          delete_current_task(r.ctx, fails, ts)
                     [] r.ret = "load_history" ->
                          load_history(r.ctx, fails, h)
                     [] OTHER -> [ctx |-> r.ctx, failed |-> FALSE]
           deletes == ~ r.raised /\ r.ret = "delete"
                        /\ current_task(r.ctx) # 0
       IN /\ ctx' = done.ctx
          /\ raised' = (raised \/ r.raised)
          /\ kiosk' =
               [(IF r.raised \/ done.failed
                 THEN Stopped(done.failed)
                 ELSE IF r.ret = "complete" /\ current_task(r.ctx) # 0
                 THEN [kiosk EXCEPT !.pc = "animating", !.elapsed = 0]
                 ELSE render(Waiting, done.ctx))
                EXCEPT !.before = ctx.state,
                       !.held = IF @ = <<>> THEN <<>> ELSE Tail(@),
                       !.missed = FALSE,
                       !.confirm = Confirming(kiosk, ctx, ev),
                       !.entered = Entered(kiosk, ctx, ev, done.ctx),
                       !.acted = IF r.ret \in {"delete", "load_history"}
                                 THEN current_task(r.ctx) ELSE 0,
                       !.calls = IF deletes THEN 1 ELSE 0,
                       !.call = IF deletes
                                THEN [op |-> "delete_task",
                                      task_id |-> current_task(r.ctx),
                                      found |-> ~ fails /\
                                        db_delete_task_returns(
                                          store, current_task(r.ctx))]
                                ELSE NoStoreCall]
          /\ store' = IF deletes /\ ~ fails
                      THEN db_delete_task(store, current_task(r.ctx))
                      ELSE store
          /\ KioskStep(ev, r.ret)

\* the animation loop of _complete_current_task: while the duration has not
\* elapsed the progress is set and rendered
KioskAnimate ==
  /\ kiosk.pc = "animating"
  /\ \E elapsed \in kiosk.elapsed..ProgressSteps :
       IF animation_running(elapsed)
       THEN /\ ctx' = animation_progress(ctx, elapsed)
            /\ kiosk' = render([kiosk EXCEPT !.elapsed = elapsed],
                               animation_progress(ctx, elapsed))
       ELSE /\ ctx' = ctx
            /\ kiosk' = [kiosk EXCEPT !.pc = "writing", !.elapsed = elapsed]
  /\ raised' = raised
  /\ store' = store
  /\ KioskStep("animation_tick", "none")

\* the one call of a store operation made for an intent, and what it
\* returned
StoreCall(k, op, task_id, found) ==
  [k EXCEPT !.calls = @ + 1,
            !.call = [op |-> op, task_id |-> task_id, found |-> found]]

\* db.complete_task of _complete_current_task, for the task read before the
\* animation; the value it returns is not looked at
KioskWrite ==
  /\ kiosk.pc = "writing"
  /\ \E fails \in BOOLEAN :
       LET task == current_task(ctx)
       IN IF fails
          THEN /\ kiosk' = StoreCall([Stopped(TRUE) EXCEPT !.acted = task],
                                     "complete_task", task, FALSE)
               /\ store' = store
          ELSE /\ kiosk' = StoreCall([kiosk EXCEPT !.pc = "loading",
                                                   !.acted = task],
                             "complete_task", task,
                             db_complete_task_returns(store, task) # Null)
               /\ store' = db_complete_task(store, task)
  /\ UNCHANGED <<ctx, raised>>
  /\ KioskStep("complete_task", "none")

\* _load_counts and _load_tasks of _complete_current_task
KioskLoad ==
  /\ kiosk.pc = "loading"
  /\ \E ts \in Snapshots : ctx' = set_tasks(set_task_counts(ctx), ts)
  /\ kiosk' = [kiosk EXCEPT !.pc = "finishing"]
  /\ raised' = raised
  /\ store' = store
  /\ KioskStep("set_tasks", "none")

\* nav.complete_animation_done of _complete_current_task; _handle_event
\* returns and run calls _render
KioskDone ==
  /\ kiosk.pc = "finishing"
  /\ ctx' = complete_animation_done(ctx)
  /\ kiosk' = render([Waiting EXCEPT !.entered = 0],
                     complete_animation_done(ctx))
  /\ raised' = raised
  /\ store' = store
  /\ KioskStep("animation_done", "none")

KioskNext ==
  \/ KioskInit
  \/ KioskEvent
  \/ KioskAnimate
  \/ KioskWrite
  \/ KioskLoad
  \/ KioskDone
  \/ InputDuringCompletion
  \/ TasksDeletedBefore

KioskSpec == Init /\ [][KioskNext]_vars

\* an iteration of the animation loop after which more time has elapsed: the
\* loop sleeps 16 ms in every iteration, so the time it compares keeps growing
AnimationAdvances ==
  /\ KioskAnimate
  /\ kiosk'.elapsed > kiosk.elapsed \/ kiosk'.pc = "writing"

\* the kiosk with its scheduling: _complete_current_task is straight-line code
\* run by the main thread inside _handle_event, so each of its steps is taken
\* once it is reached; nothing makes the user turn or press the encoder
KioskFairSpec ==
  /\ KioskSpec
  /\ WF_vars(AnimationAdvances)
  /\ WF_vars(KioskWrite)
  /\ WF_vars(KioskLoad)
  /\ WF_vars(KioskDone)

(***************************************************************************)
(* Claims about the kiosk workflow                                         *)
(***************************************************************************)
\* C11: when the store call made for an intent has failed, the view state is
\* the state the navigator had before the press that produced the intent.
C11_NoTransitionOnFailure == kiosk.failed => ctx.state = kiosk.before

\* C28: complete_task is called only when the animation has run for its
\* whole duration, the task list is refreshed only right after the write,
\* and the end of the animation is signalled only right after the refresh;
\* the view state is COMPLETING from the start of the animation until the
\* write has returned.
C28_WorkflowOrder ==
  [][/\ KioskAnimate => ctx.state = "COMPLETING" /\ ctx'.state = "COMPLETING"
     /\ KioskWrite =>
          /\ kiosk.elapsed = ProgressSteps
          /\ event = "animation_tick"
          /\ ctx.state = "COMPLETING"
          /\ ctx'.state = "COMPLETING"
     /\ (KioskLoad /\ kiosk.pc = "loading") => event = "complete_task"
     /\ KioskDone => event = "set_tasks" /\ prev.state = "COMPLETING"]_vars

\* a completion has gone through all its steps
C28_Witness ==
  /\ event = "animation_done"
  /\ kiosk.pc = "idle"
  /\ kiosk.before = "TASK_ACTIONS"
  /\ ctx.state = "TASK_LIST"

\* C29: while _complete_current_task runs the navigator handles no event:
\* every step changes the navigator through the workflow itself or not at
\* all, and an input made meanwhile is not kept for a later poll.
C29_Blocking ==
  [][/\ kiosk.pc \in Busy =>
          \/ UNCHANGED navVars
          \/ KioskAnimate
          \/ KioskWrite
          \/ KioskLoad
          \/ KioskDone
     /\ kiosk'.held = <<>>]_vars

\* a completion during which the knob was used has ended
C29_Witness ==
  /\ kiosk.missed
  /\ kiosk.pc = "idle"
  /\ event = "animation_done"
  /\ kiosk.held = <<>>

\* C31: a complete_task or delete_task call made by the kiosk for a task the
\* store does not hold reports not found and leaves every task and every
\* completion record as they were; for a Complete or Delete intent the kiosk
\* calls the store operation exactly once, whatever it reports.
C31_NotFoundChangesNothing ==
  [][/\ (/\ KioskWrite
         /\ kiosk'.pc = "loading"
         /\ ~ task_exists(store, current_task(ctx)))
          => store' = store /\ ~ kiosk'.call.found
     /\ (/\ KioskEvent
         /\ kiosk'.call.op = "delete_task"
         /\ ~ kiosk'.failed
         /\ ~ task_exists(store, kiosk'.call.task_id))
          => store' = store /\ ~ kiosk'.call.found
     /\ kiosk'.calls <= 1
     /\ (KioskEvent /\ intent' = "delete" /\ ~ raised')
          => kiosk'.calls = 1
     /\ KioskWrite => kiosk.calls = 0 /\ kiosk'.calls = 1
     /\ KioskDone => kiosk.calls = 1 /\ kiosk'.calls = 1]_vars

\* a completion of a task deleted meanwhile has run to its end: one call,
\* not found, and the task the store holds is still there
C31_Witness ==
  /\ kiosk.pc = "idle"
  /\ event = "animation_done"
  /\ kiosk.calls = 1
  /\ kiosk.call.op = "complete_task"
  /\ ~ kiosk.call.found
  /\ DOMAIN store.tasks = {MaxTasks + 1}
  /\ store.history = <<>>

\* C33: once the kiosk has loaded its tasks, the view state is EMPTY exactly
\* when the task snapshot is empty, also after a completion whose refresh
\* returned no tasks.
C33_EmptyIffNoTasks ==
  kiosk.pc # "start" => (ctx.state = "EMPTY" <=> ctx.tasks = <<>>)

\* C35: a handler returns delete only for a press that follows a press on
\* the Delete action and, after it, an odd number of rotations and no other
\* event; a press right after the press on Delete never deletes.
C35_DeleteNeedsConfirmation ==
  [][KioskEvent =>
       /\ intent' = "delete" =>
            /\ event' = "press"
            /\ ctx.state = "DELETE_CONFIRM"
            /\ kiosk.confirm.open
            /\ kiosk.confirm.odd
       /\ (event' = "press" /\ kiosk.confirm.open /\ ~ kiosk.confirm.odd)
            => intent' # "delete"]_vars

\* Delete was pressed, the knob turned an odd number of times, and the press
\* gave delete
C35_Witness ==
  /\ intent = "delete"
  /\ event = "press"
  /\ kiosk.before = "DELETE_CONFIRM"
  /\ kiosk.call.op = "delete_task"
  /\ ~ kiosk.confirm.open

\* C36: an input event handled outside the task list leaves the task index
\* and the task snapshot as they are, and the task a Complete, Delete or
\* LoadHistory intent is carried out on is the task that was selected when
\* the action menu was entered from the task list.
C36_TaskFixedOutsideList ==
  [][/\ KioskEvent =>
          /\ (ctx.state # "TASK_LIST" /\ intent' # "delete")
               => ctx'.task_index = ctx.task_index /\ ctx'.tasks = ctx.tasks
          /\ (intent' \in {"delete", "load_history"} /\ ~ raised')
               => kiosk.entered # 0 /\ kiosk'.acted = kiosk.entered
     /\ KioskWrite => kiosk.entered # 0 /\ kiosk'.acted = kiosk.entered]_vars

\* the history of the second task was asked for after rotations in the
\* action menu
C36_Witness ==
  /\ intent = "load_history"
  /\ ctx.state = "TASK_HISTORY"
  /\ kiosk.acted = 2
  /\ kiosk.entered = 2
  /\ ctx.action_index = 1

\* C37: Empty is absorbing under input: an input event handled in EMPTY
\* changes nothing of the navigator, emits no intent and leads to no store
\* call or refresh; EMPTY is left only by a refresh that brought tasks, and
\* then for the task list.
C37_EmptyAbsorbing ==
  [][ctx.state = "EMPTY" =>
       /\ KioskEvent => /\ ctx' = ctx
                        /\ intent' = "none"
                        /\ kiosk'.calls = 0
                        /\ store' = store
       /\ ctx'.state # "EMPTY" => /\ ctx'.tasks # <<>>
                                  /\ ctx'.state = "TASK_LIST"
                                  /\ KioskInit \/ KioskLoad]_vars

\* C38: Completing is always eventually left: once the navigator is in
\* COMPLETING the workflow signals the end of the animation with the
\* navigator in TASK_LIST, unless a store call has not returned; and only
\* the workflow (its refresh or that signal) leaves COMPLETING, no input.
C38_CompletingLeft ==
  /\ (ctx.state = "COMPLETING")
       ~> \/ event = "animation_done" /\ ctx.state = "TASK_LIST"
          \/ kiosk.failed
  /\ [][(ctx.state = "COMPLETING" /\ ctx'.state # "COMPLETING")
          => KioskLoad \/ KioskDone]_vars

\* the end of the animation has been signalled after a press on Done, and the
\* navigator is back in the task list
C38_Witness ==
  /\ event = "animation_done"
  /\ prev.state = "COMPLETING"
  /\ ctx.state = "TASK_LIST"
  /\ kiosk.call.op = "complete_task"
  /\ ~ kiosk.failed

C27_PositiveValue ==
  \A id \in DOMAIN store.tasks : store.tasks[id].recurrence_value > 0

====
